---- MODULE Spec2Model ----
(***************************************************************************)
(* koishi-plugin-nats: the configuration resolver                          *)
(* (schemaToConnectionOptions) and the connection supervisor               *)
(* (NatsService.start / stop / handleStatusUpdates).                       *)
(*                                                                         *)
(* JavaScript strings are sequences of code points, byte buffers are       *)
(* sequences of bytes, and an optional value is a set: {} is undefined,    *)
(* {v} is the value v.                                                     *)
(***************************************************************************)
EXTENDS Integers, Sequences, FiniteSets, TLC

VARIABLES
    config,      \* this.config, the validated plugin configuration
    fs,          \* the file system: path -> optional byte content
    rPc,         \* schemaToConnectionOptions: position of one invocation
    rAuth,       \* schemaToConnectionOptions: fulfilled promises of the authenticator map
    rRejected,   \* schemaToConnectionOptions: indices of the promises that have rejected
    rOrder,      \* schemaToConnectionOptions: indices in the order their promises settled
    rOptions,    \* schemaToConnectionOptions: the options object being built
    rTls,        \* schemaToConnectionOptions: the tlsOptions object being built
    rReads,      \* schemaToConnectionOptions: the readFile calls made so far
    client,      \* NatsService.client: 0 is null, k > 0 is connection k
    startPc,     \* position of each start() invocation
    stopPc,      \* position of each stop() invocation
    stopConn,    \* the connection each stop() invoked drain() on (0: none)
    stopSaw,     \* the start() invocations that were awaiting when a stop() found no client
    startConn,   \* the connection each start() opened (0: none)
    conn,        \* transport: state of each connection
    closedErr,   \* transport: what client.closed() of each connection resolves with
    stream,      \* transport: status events delivered and not yet read, per connection
    delivered,   \* transport: every status event delivered so far, per connection
    loopPc,      \* position of handleStatusUpdates for each connection
    log          \* the logger: the entries each call or task has written, in order

rvars == <<rPc, rAuth, rRejected, rOrder, rOptions, rTls, rReads>>
svars == <<client, startPc, stopPc, stopConn, stopSaw, startConn, conn, closedErr, stream, delivered, loopPc, log>>
vars == <<config, fs, rPc, rAuth, rRejected, rOrder, rOptions, rTls, rReads, client, startPc, stopPc, stopConn, stopSaw,
          startConn,          conn, closedErr, stream, delivered, loopPc, log>>

(***************************************************************************)
(* Bounds of the model.                                                    *)
(***************************************************************************)
MaxAuth == 2
MaxStarts == 2
MaxStops == 2
MaxEvents == 2

(***************************************************************************)
(* Values.                                                                 *)
(***************************************************************************)
Undefined == {}
Some(v) == {v}
Val(o) == CHOOSE v \in o : TRUE

EmptyStr == <<>>
PathA == <<47, 97>>
PathB == <<47, 98>>
Paths == {PathA, PathB}
PemInline == <<105, 233>>
TokenStr == <<116>>
UserStr == <<117>>
PassStr == <<112>>
SeedStr == <<83, 233>>

\* JavaScript truthiness of an optional string: undefined and "" are falsy.
Truthy(o) == o # Undefined /\ Val(o) # EmptyStr

RECURSIVE Utf8Encode(_)
\* new TextEncoder().encode(s), for code points below 2048.
Utf8Encode(s) ==
    IF s = <<>> THEN <<>>
    ELSE LET c == Head(s)
         IN (IF c < 128 THEN <<c>>
             ELSE <<192 + (c \div 64), 128 + (c % 64)>>) \o Utf8Encode(Tail(s))

RECURSIVE Utf8Decode(_)
\* Buffer -> string under the 'utf8' encoding, for one- and two-byte sequences;
\* a byte that starts no valid sequence decodes to U+FFFD.
Utf8Decode(b) ==
    IF b = <<>> THEN <<>>
    ELSE LET b1 == Head(b)
         IN IF b1 < 128 THEN <<b1>> \o Utf8Decode(Tail(b))
            ELSE IF b1 >= 194 /\ b1 <= 223 /\ Len(b) >= 2 /\ b[2] >= 128 /\ b[2] <= 191
                 THEN <<(b1 - 192) * 64 + (b[2] - 128)>> \o Utf8Decode(Tail(Tail(b)))
                 ELSE <<65533>> \o Utf8Decode(Tail(b))

\* fs/promises readFile(path): the bytes of the file, or a rejection.
FileExists(f, path) == path \in DOMAIN f /\ f[path] # Undefined
readFile(f, path) == Val(f[path])
readFileUtf8(f, path) == Utf8Decode(Val(f[path]))

(***************************************************************************)
(* The authenticators of the transport, as the values they are built from. *)
(***************************************************************************)
tokenAuthenticator(token) == <<"token", token>>
usernamePasswordAuthenticator(user, pass) == <<"userpass", user, pass>>
nkeyAuthenticator(seed) == <<"nkey", seed>>
credsAuthenticator(creds) == <<"creds", creds>>

(***************************************************************************)
(* Config, AuthSpec and TLSSpec values.                                    *)
(***************************************************************************)
AuthSpec(type, token, user, pass, seed, creds) ==
    [authType |-> type, auth_token |-> token, user |-> user, pass |-> pass,
     nkey_seed |-> seed, creds_file |-> creds]

TokenSpec == AuthSpec("Token", Some(TokenStr), Undefined, Undefined, Undefined, Undefined)
UserPassSpec == AuthSpec("UserPass", Undefined, Some(UserStr), Some(PassStr), Undefined, Undefined)
UserOnlySpec == AuthSpec("UserPass", Undefined, Some(UserStr), Undefined, Undefined, Undefined)
NKeySpec == AuthSpec("NKey", Undefined, Undefined, Undefined, Some(SeedStr), Undefined)
CredsASpec == AuthSpec("creds_file", Undefined, Undefined, Undefined, Undefined, Some(PathA))
CredsBSpec == AuthSpec("creds_file", Undefined, Undefined, Undefined, Undefined, Some(PathB))
AuthSpecs == {TokenSpec, UserPassSpec, UserOnlySpec, NKeySpec, CredsASpec, CredsBSpec}

AuthLists == UNION {[1..n -> AuthSpecs] : n \in 0..MaxAuth}

TlsSpec(hf, certFile, cert, keyFile, key, caFile, ca) ==
    [handshakeFirst |-> hf, certFile |-> certFile, cert |-> cert,
     keyFile |-> keyFile, key |-> key, caFile |-> caFile, ca |-> ca]

\* The values one slot's path field and inline field range over.
PathChoices == {Undefined, Some(EmptyStr), Some(PathA), Some(PathB)}
InlineChoices == {Undefined, Some(EmptyStr), Some(PemInline)}
SlotChoices == PathChoices \X InlineChoices
PlainSlots == {<<Undefined, Undefined>>, <<Some(PathB), Some(PemInline)>>}

\* One slot ranges over every combination while the other two range over PlainSlots.
TlsSpecs ==
    {TlsSpec(hf, c[1], c[2], k[1], k[2], a[1], a[2]) :
        hf \in {Undefined, Some(TRUE), Some(FALSE)},
        c \in SlotChoices, k \in PlainSlots, a \in PlainSlots}
    \cup {TlsSpec(Some(TRUE), c[1], c[2], k[1], k[2], a[1], a[2]) :
        c \in PlainSlots, k \in SlotChoices, a \in PlainSlots}
    \cup {TlsSpec(Some(FALSE), c[1], c[2], k[1], k[2], a[1], a[2]) :
        c \in PlainSlots, k \in PlainSlots, a \in SlotChoices}

MkConfig(auth, tlsEnabled, tlsConfig) ==
    [servers |-> <<"127.0.0.1:4222">>, noRandomize |-> Some(FALSE), reconnect |-> Some(TRUE),
     maxReconnectAttempts |-> Some(-1), name |-> Some("koishi-bot"),
     noAsyncTraces |-> Some(FALSE), debug |-> Some(FALSE),
     authenticator |-> auth, tlsEnabled |-> tlsEnabled, tlsConfig |-> tlsConfig]

PlainTls == TlsSpec(Some(FALSE), Some(PathA), Undefined, Undefined, Some(PemInline),
                    Undefined, Undefined)

\* The configurations schemaToConnectionOptions is applied to.  Config declares
\* tlsEnabled and tlsConfig optional, each on its own, and the schema names tlsConfig
\* without requiring it, so tlsEnabled = true comes with or without a tlsConfig.
ResolverConfigs ==
    {MkConfig(a, e[1], e[2]) :
        a \in {Undefined} \cup {Some(l) : l \in AuthLists},
        e \in {<<Some(TRUE), Some(PlainTls)>>, <<Some(TRUE), Undefined>>,
               <<Some(FALSE), Undefined>>, <<Undefined, Undefined>>}}
    \cup {MkConfig(a, e, Some(t)) : a \in {Undefined, Some(<<CredsASpec>>)},
                                    e \in {Undefined, Some(FALSE), Some(TRUE)}, t \in TlsSpecs}

\* The configurations the service is started with.
\* The configuration the service is started with: a credentials file at PathA, a
\* certificate file at PathB and an inline key.
ServiceTls == TlsSpec(Some(FALSE), Some(PathB), Undefined, Undefined, Some(PemInline),
                      Undefined, Undefined)
ServiceConfigs == {MkConfig(Some(<<TokenSpec, CredsASpec>>), Some(TRUE), Some(ServiceTls))}

FileSystem(a, b) == [p \in Paths |-> IF p = PathA THEN a ELSE b]
FileSystems ==
    {FileSystem(a, b) :
        a \in {Undefined, Some(<<97, 195, 169>>)}, b \in {Undefined, Some(<<255, 98>>)}}
\* The file systems the service is started on: both files are readable, or one is missing.
ServiceFileSystems == FileSystems \ {FileSystem(Undefined, Undefined)}

(***************************************************************************)
(* schemaToConnectionOptions.                                              *)
(***************************************************************************)
\* readFile(path) settles with a value: the path names a readable file.
ReadOk(f, pathOpt) == pathOpt # Undefined /\ FileExists(f, Val(pathOpt))

\* The async callback of config.authenticator.map: whether it rejects ...
AuthRejects(auth, f) == auth.authType = "creds_file" /\ ~ReadOk(f, auth.creds_file)

\* ... and the authenticator it resolves with otherwise.
AuthCallback(auth, f) ==
    CASE auth.authType = "Token" -> tokenAuthenticator(auth.auth_token)
      [] auth.authType = "UserPass" -> usernamePasswordAuthenticator(auth.user, auth.pass)
      [] auth.authType = "NKey" ->
            nkeyAuthenticator(Utf8Encode(IF auth.nkey_seed = Undefined THEN EmptyStr
                                         ELSE Val(auth.nkey_seed)))
      [] auth.authType = "creds_file" -> credsAuthenticator(readFile(f, Val(auth.creds_file)))

\* A mutant of AuthenticatorList: the results in the order the promises settled.
AuthenticatorListBySettle(results, order) ==
    [i \in 1..Len(order) |-> Val(results[order[i]])]

\* Promise.all: the array of results, by position in the input array.
AuthenticatorList(results, order) ==
    [i \in 1..Len(order) |-> Val(results[i])]

\* A mutant of ResolveSlot: the else-if branch is missing, an inline value is never used.
ResolveSlotPathOnly(f, pathOpt, inlineOpt) ==
    IF Truthy(pathOpt) THEN Some(readFileUtf8(f, Val(pathOpt))) ELSE Undefined

\* A mutant of ResolveSlot: the inline value is preferred to the file.
ResolveSlotInlineFirst(f, pathOpt, inlineOpt) ==
    IF Truthy(inlineOpt) THEN inlineOpt
    ELSE IF Truthy(pathOpt) THEN Some(readFileUtf8(f, Val(pathOpt)))
    ELSE Undefined

\* One of the cert / key / ca blocks: the value the slot of tlsOptions gets.
ResolveSlot(f, pathOpt, inlineOpt) ==
    IF Truthy(pathOpt) THEN Some(readFileUtf8(f, Val(pathOpt)))
    ELSE IF Truthy(inlineOpt) THEN inlineOpt
    ELSE Undefined

\* One of the cert / key / ca blocks: its readFile rejects.
SlotRejects(f, pathOpt) == Truthy(pathOpt) /\ ~FileExists(f, Val(pathOpt))

HasAuth(cfg) == cfg.authenticator # Undefined /\ Len(Val(cfg.authenticator)) > 0
TlsOn(cfg) == cfg.tlsEnabled = Some(TRUE) /\ cfg.tlsConfig # Undefined

\* const options = { servers: config.servers, ... }
BaseOptions(cfg) ==
    [servers |-> cfg.servers, noRandomize |-> cfg.noRandomize, reconnect |-> cfg.reconnect,
     maxReconnectAttempts |-> cfg.maxReconnectAttempts, name |-> cfg.name,
     noAsyncTraces |-> cfg.noAsyncTraces, debug |-> cfg.debug,
     authenticator |-> Undefined, tls |-> Undefined]

EmptyTls == [handshakeFirst |-> Undefined, cert |-> Undefined, key |-> Undefined,
             ca |-> Undefined]

\* The invocation as a whole: it rejects ...
ResolveRejects(cfg, f) ==
    \/ HasAuth(cfg) /\ \E i \in 1..Len(Val(cfg.authenticator)) :
                          AuthRejects(Val(cfg.authenticator)[i], f)
    \/ TlsOn(cfg) /\ LET t == Val(cfg.tlsConfig)
                     IN SlotRejects(f, t.certFile) \/ SlotRejects(f, t.keyFile)
                        \/ SlotRejects(f, t.caFile)

\* ... or resolves with these ConnectionOptions.
schemaToConnectionOptions(cfg, f) ==
    LET auths == Val(cfg.authenticator)
        t == Val(cfg.tlsConfig)
    IN [BaseOptions(cfg) EXCEPT
          !.authenticator =
              IF HasAuth(cfg)
              THEN Some([i \in 1..Len(auths) |-> AuthCallback(auths[i], f)])
              ELSE Undefined,
          !.tls =
              IF TlsOn(cfg)
              THEN Some([handshakeFirst |-> t.handshakeFirst,
                         cert |-> ResolveSlot(f, t.certFile, t.cert),
                         key |-> ResolveSlot(f, t.keyFile, t.key),
                         ca |-> ResolveSlot(f, t.caFile, t.ca)])
              ELSE Undefined]

\* The readFile calls config.authenticator.map makes: one per creds_file AuthSpec, all
\* of them made before the first await.
AuthReads(auths) ==
    {<<"auth", i, auths[i].creds_file>> : i \in {j \in 1..Len(auths) : auths[j].authType = "creds_file"}}

\* The readFile call one of the cert / key / ca blocks makes, if any.
SlotReads(slot, pathOpt) == IF Truthy(pathOpt) THEN {<<slot, 0, pathOpt>>} ELSE {}

\* The cert, key and ca blocks, in the order of the code.
SlotNames == <<"cert", "key", "ca">>
SlotPath(t, n) == CASE n = 1 -> t.certFile [] n = 2 -> t.keyFile [] n = 3 -> t.caFile
SlotInline(t, n) == CASE n = 1 -> t.cert [] n = 2 -> t.key [] n = 3 -> t.ca
\* The position of an invocation that awaits the readFile of block n.
SlotPc(n) == CASE n = 1 -> "tls_cert" [] n = 2 -> "tls_key" [] n = 3 -> "tls_ca"
\* tlsOptions.<slot> = v; an undefined v leaves the slot absent.
WithSlot(tls, n, v) ==
    CASE n = 1 -> [tls EXCEPT !.cert = v]
      [] n = 2 -> [tls EXCEPT !.key = v]
      [] n = 3 -> [tls EXCEPT !.ca = v]

\* The TLS blocks from block n on, up to the next await or to the return: a block with
\* a path calls readFile and awaits it, a block without one is done at once.
RECURSIVE TlsRun(_, _, _, _)
TlsRun(cfg, f, tls, n) ==
    LET t == Val(cfg.tlsConfig)
    IN IF n > 3
       THEN [pc |-> "done", tls |-> tls, reads |-> {}]
       ELSE IF Truthy(SlotPath(t, n))
       THEN [pc |-> SlotPc(n), tls |-> tls, reads |-> SlotReads(SlotNames[n], SlotPath(t, n))]
       ELSE TlsRun(cfg, f, WithSlot(tls, n, ResolveSlot(f, SlotPath(t, n), SlotInline(t, n))),
                   n + 1)

\* The invocation from the end of the authenticator block up to the next await or to
\* the return: tlsOptions is created and handshakeFirst copied only here.
AfterAuth(cfg, f) ==
    IF TlsOn(cfg)
    THEN TlsRun(cfg, f, [EmptyTls EXCEPT !.handshakeFirst = Val(cfg.tlsConfig).handshakeFirst], 1)
    ELSE [pc |-> "done", tls |-> EmptyTls, reads |-> {}]

\* The invocation has run up to run.pc; options.tls = tlsOptions before the return.
Continue(run) ==
    /\ rPc' = run.pc
    /\ rTls' = run.tls
    /\ rReads' = rReads \cup run.reads
    /\ rOptions' = IF run.pc = "done" /\ TlsOn(config)
                   THEN [rOptions EXCEPT !.tls = Some(run.tls)]
                   ELSE rOptions

\* The promises config.authenticator.map returns: the callback of an AuthSpec without
\* file has no await and its promise is fulfilled at once; that of a creds_file
\* AuthSpec is pending on its readFile.
AuthPromises(auths, f) ==
    [i \in 1..Len(auths) |->
        IF auths[i].authType = "creds_file" THEN Undefined ELSE Some(AuthCallback(auths[i], f))]
RECURSIVE SettledAtOnce(_, _)
SettledAtOnce(auths, n) ==
    IF n = 0 THEN <<>>
    ELSE IF auths[n].authType = "creds_file" THEN SettledAtOnce(auths, n - 1)
    ELSE Append(SettledAtOnce(auths, n - 1), n)

\* schemaToConnectionOptions is called and runs up to its first await, or to its return
\* when it has nothing to await.
RStart ==
    /\ rPc = "idle"
    /\ IF HasAuth(config)
       THEN /\ rAuth' = AuthPromises(Val(config.authenticator), fs)
            /\ rOrder' = SettledAtOnce(Val(config.authenticator), Len(Val(config.authenticator)))
            /\ rReads' = AuthReads(Val(config.authenticator))
            /\ rPc' = "auth"
            /\ UNCHANGED <<rOptions, rTls>>
       ELSE /\ Continue(AfterAuth(config, fs))
            /\ UNCHANGED <<rAuth, rOrder>>
    /\ UNCHANGED <<config, fs, rRejected, svars>>

\* The promise of the i-th callback is pending on its readFile.
AuthPending(i) == i \in DOMAIN rAuth /\ rAuth[i] = Undefined /\ i \notin rRejected

\* A mutant of RAuthSettle: a callback whose read fails resolves with no authenticator
\* instead of rejecting.
RAuthSettleSwallows(i) ==
    /\ AuthPending(i)
    /\ LET auth == Val(config.authenticator)[i]
       IN rAuth' = [rAuth EXCEPT ![i] = IF AuthRejects(auth, fs) THEN Some(<<"undefined">>)
                                        ELSE Some(AuthCallback(auth, fs))]
    /\ rOrder' = Append(rOrder, i)
    /\ UNCHANGED <<config, fs, rPc, rRejected, rOptions, rTls, rReads, svars>>

\* The readFile of the i-th callback settles and the callback runs on, whether or not
\* Promise.all has rejected meanwhile: its promise rejects, and the first rejection
\* rejects Promise.all and with it the invocation; or credsAuthenticator is called and
\* its promise is fulfilled.
RAuthSettle(i) ==
    /\ AuthPending(i)
    /\ LET auth == Val(config.authenticator)[i]
       IN IF AuthRejects(auth, fs)
          THEN /\ rRejected' = rRejected \cup {i}
               /\ rPc' = IF rPc = "auth" THEN "failed" ELSE rPc
               /\ UNCHANGED <<rAuth, rOrder>>
          ELSE /\ rAuth' = [rAuth EXCEPT ![i] = Some(AuthCallback(auth, fs))]
               /\ rOrder' = Append(rOrder, i)
               /\ UNCHANGED <<rPc, rRejected>>
    /\ UNCHANGED <<config, fs, rOptions, rTls, rReads, svars>>

\* Promise.all resolves: options.authenticator = authenticators, and the invocation
\* runs on to its next await or to its return.
RAuthJoin ==
    /\ rPc = "auth"
    /\ \A i \in DOMAIN rAuth : rAuth[i] # Undefined
    /\ LET run == AfterAuth(config, fs)
       IN /\ rPc' = run.pc
          /\ rTls' = run.tls
          /\ rReads' = rReads \cup run.reads
          /\ rOptions' = [rOptions EXCEPT
                            !.authenticator = Some(AuthenticatorList(rAuth, rOrder)),
                            !.tls = IF run.pc = "done" /\ TlsOn(config)
                                    THEN Some(run.tls) ELSE @]
    /\ UNCHANGED <<config, fs, rAuth, rRejected, rOrder, svars>>

\* The readFile that block n awaits settles: a rejection rejects the invocation; a
\* text is assigned to the slot and the invocation runs on to its next await or to its
\* return.
RTlsSettle(n) ==
    /\ rPc = SlotPc(n)
    /\ LET t == Val(config.tlsConfig)
       IN IF SlotRejects(fs, SlotPath(t, n))
          THEN /\ rPc' = "failed"
               /\ UNCHANGED <<rTls, rOptions, rReads>>
          ELSE Continue(TlsRun(config, fs,
                               WithSlot(rTls, n, ResolveSlot(fs, SlotPath(t, n), SlotInline(t, n))),
                               n + 1))
    /\ UNCHANGED <<fs, rAuth, rRejected, rOrder, svars>>

\* A mutant of RTlsCert: the text that was read is also written back into
\* config.tlsConfig.cert.
RTlsCertWritesConfig ==
    /\ RTlsSettle(1)
    /\ LET t == Val(config.tlsConfig)
       IN config' = IF SlotRejects(fs, t.certFile)
                    THEN config
                    ELSE [config EXCEPT !.tlsConfig =
                            Some([t EXCEPT !.cert = ResolveSlot(fs, t.certFile, t.cert)])]

\* The readFile of the cert block settles.
RTlsCert == RTlsSettle(1) /\ UNCHANGED config

\* The readFile of the key block settles.
RTlsKey == RTlsSettle(2) /\ UNCHANGED config

\* The readFile of the ca block settles.
RTlsCa == RTlsSettle(3) /\ UNCHANGED config

RNext ==
    \/ RStart
    \/ \E i \in 1..MaxAuth : RAuthSettle(i)
    \/ RAuthJoin
    \/ RTlsCert
    \/ RTlsKey
    \/ RTlsCa


(***************************************************************************)
(* NatsService and the transport it supervises.                            *)
(***************************************************************************)
Starts == 1..MaxStarts
Stops == 1..MaxStops
\* Every start() opens at most one connection.
Conns == 1..MaxStarts

\* The tags of the transport's status events; pingTimer is one the switch does not name.
StatusTags == {"error", "disconnect", "reconnect", "reconnecting", "staleConnection",
               "ldm", "update", "pingTimer"}
\* The errors connect() rejects with, and those client.closed() resolves with.
ConnectErrors == {"CONNECTION_REFUSED"}
ClosedErrors == {"TIMEOUT", "AUTHORIZATION_VIOLATION"}
Void == "void"

Entry(sev, msg, arg) == [sev |-> sev, msg |-> msg, arg |-> arg]
\* The calls and tasks that write to the logger.
Actors == ({"start"} \X Starts) \cup ({"stop"} \X Stops) \cup ({"loop"} \X Conns)
\* this.#l.<sev>(msg, arg), called by actor a.
Logged(a, e) == [log EXCEPT ![a] = Append(@, e)]

\* The connections that are opened and not yet closed.
Live == {k \in Conns : conn[k] \in {"open", "draining"}}
\* The connection the next successful connect() opens.
NextConn == CHOOSE k \in Conns : conn[k] = "unopened" /\ \A j \in 1..(k - 1) : conn[j] # "unopened"
\* The number of status events the transport has delivered on all connections.
RECURSIVE DeliveredUpTo(_)
DeliveredUpTo(k) == IF k = 0 THEN 0 ELSE Len(delivered[k]) + DeliveredUpTo(k - 1)

\* A mutant of AlreadyConnected: the guard of start() is missing.
AlreadyConnectedNever(cl) == FALSE

\* start(): if (this.client)
AlreadyConnected(cl) == cl # 0

\* start(), up to its first await.
Start(c) ==
    /\ startPc[c] = "idle"
    /\ \A b \in 1..(c - 1) : startPc[b] # "idle"
    /\ IF AlreadyConnected(client)
       THEN /\ log' = Logged(<<"start", c>>, Entry("warn", "already connected", Void))
            /\ startPc' = [startPc EXCEPT ![c] = "returned_warn"]
       ELSE /\ startPc' = [startPc EXCEPT ![c] = "resolving"]
            /\ UNCHANGED log
    /\ UNCHANGED <<config, fs, rvars, stopSaw, client, stopPc, stopConn, startConn, conn, closedErr,
                   stream, delivered, loopPc>>

\* A mutant of AfterResolve: the try block is entered whatever the resolution gave.
AfterResolveAlwaysConnects(rejected) == "connecting"

\* start(): await schemaToConnectionOptions(this.config) stands before the try block, so
\* its rejection rejects start(); otherwise the try block is entered.
AfterResolve(rejected) == IF rejected THEN "threw_resolve" ELSE "connecting"

\* start(): schemaToConnectionOptions has settled; on success connect() is called.
StartResolved(c) ==
    /\ startPc[c] = "resolving"
    /\ startPc' = [startPc EXCEPT ![c] = AfterResolve(ResolveRejects(config, fs))]
    /\ log' = IF startPc'[c] = "connecting"
              THEN Logged(<<"start", c>>, Entry("info", "connecting", Void))
              ELSE log
    /\ UNCHANGED <<config, fs, rvars, stopSaw, client, stopPc, stopConn, startConn, conn, closedErr,
                   stream, delivered, loopPc>>

\* A mutant of ConnectCatch: the error is logged and swallowed.
ConnectCatchSwallow(c) == "returned_failed"

\* catch (error) { ...; throw error }
ConnectCatch(c) == "threw_connect"

\* A mutant of StartConnected: handleStatusUpdates is called before the assignment, on
\* the reference start() found (null), so that no task listens to the new connection.
StartConnectedLaunchesFirst(c) ==
    /\ startPc[c] = "connecting"
    /\ LET k == NextConn
       IN /\ conn' = [conn EXCEPT ![k] = "open"]
          /\ client' = k
          /\ startConn' = [startConn EXCEPT ![c] = k]
          /\ loopPc' = IF client # 0 /\ loopPc[client] = "none"
                       THEN [loopPc EXCEPT ![client] = "racing"]
                       ELSE loopPc
    /\ log' = Logged(<<"start", c>>, Entry("success", "connected", Void))
    /\ startPc' = [startPc EXCEPT ![c] = "returned"]
    /\ UNCHANGED <<config, fs, rvars, stopSaw, stopPc, stopConn, closedErr, stream, delivered>>

\* start(): connect() has resolved; the connection is stored and handleStatusUpdates
\* runs up to its first await.
StartConnected(c) ==
    /\ startPc[c] = "connecting"
    /\ LET k == NextConn
       IN /\ conn' = [conn EXCEPT ![k] = "open"]
          /\ client' = k
          /\ startConn' = [startConn EXCEPT ![c] = k]
          /\ loopPc' = [loopPc EXCEPT ![k] = "racing"]
    /\ log' = Logged(<<"start", c>>, Entry("success", "connected", Void))
    /\ startPc' = [startPc EXCEPT ![c] = "returned"]
    /\ UNCHANGED <<config, fs, rvars, stopSaw, stopPc, stopConn, closedErr, stream, delivered>>

\* start(): connect() has rejected.
StartConnectFailed(c, e) ==
    /\ startPc[c] = "connecting"
    /\ log' = Logged(<<"start", c>>, Entry("error", "connect failed", e))
    /\ client' = 0
    /\ startPc' = [startPc EXCEPT ![c] = ConnectCatch(c)]
    /\ UNCHANGED <<config, fs, rvars, stopSaw, stopPc, stopConn, startConn, conn, closedErr,
                   stream, delivered, loopPc>>

\* The invocations of start() that are at one of their awaits.
StartsInFlight == {c \in Starts : startPc[c] \in {"resolving", "connecting"}}

\* A mutant of StopLogsClosing: the entry is written before the reference is tested.
StopLogsClosingAlways(cl) == TRUE

\* stop(): the 'Closing NATS connection...' entry is written inside if (this.client).
StopLogsClosing(cl) == cl # 0

\* stop(), up to its await of drain().
Stop(s) ==
    /\ stopPc[s] = "idle"
    /\ \A b \in 1..(s - 1) : stopPc[b] # "idle"
    /\ log' = IF StopLogsClosing(client)
              THEN Logged(<<"stop", s>>, Entry("info", "closing", Void))
              ELSE log
    /\ IF client # 0
       THEN /\ stopConn' = [stopConn EXCEPT ![s] = client]
            /\ conn' = [conn EXCEPT ![client] = IF @ = "open" THEN "draining" ELSE @]
            /\ stopPc' = [stopPc EXCEPT ![s] = "draining"]
       ELSE /\ stopPc' = [stopPc EXCEPT ![s] = "returned"]
            /\ UNCHANGED <<stopConn, conn>>
    /\ stopSaw' = IF client = 0 THEN stopSaw \cup StartsInFlight ELSE stopSaw
    /\ UNCHANGED <<config, fs, rvars, client, startPc, startConn, closedErr, stream,
                   delivered, loopPc>>

\* A mutant of StopReturned: drain() is called without await.
StopReturnedUnawaited(s) ==
    /\ stopPc[s] = "draining"
    /\ stopPc' = [stopPc EXCEPT ![s] = "returned_drained"]
    /\ UNCHANGED <<config, fs, rvars, stopSaw, client, startPc, stopConn, startConn, conn, closedErr,
                   stream, delivered, loopPc, log>>

\* stop(): drain() has resolved, the connection is closed.
StopReturned(s) ==
    /\ stopPc[s] = "draining"
    /\ conn[stopConn[s]] = "closed"
    /\ stopPc' = [stopPc EXCEPT ![s] = "returned_drained"]
    /\ UNCHANGED <<config, fs, rvars, stopSaw, client, startPc, stopConn, startConn, conn, closedErr,
                   stream, delivered, loopPc, log>>

\* The transport delivers a status event on the status stream of connection k, where it
\* waits for the loop's next read.  A connection that has closed delivers no further
\* event this way, and MaxEvents events are delivered in all; the status source that
\* keeps yielding events, also after the closing, is that of LoopStatusReady.
TransportStatus(k, tag) ==
    /\ conn[k] \in {"open", "draining"}
    /\ DeliveredUpTo(MaxStarts) < MaxEvents
    /\ stream' = [stream EXCEPT ![k] = Append(@, tag)]
    /\ delivered' = [delivered EXCEPT ![k] = Append(@, tag)]
    /\ UNCHANGED <<config, fs, rvars, stopSaw, client, startPc, stopPc, stopConn, startConn, conn,
                   closedErr, loopPc, log>>

\* The transport closes connection k (a drain that has flushed, attempts exhausted, a
\* fatal error): client.closed() resolves with e.
TransportClosed(k, e) ==
    /\ conn[k] \in {"open", "draining"}
    /\ conn' = [conn EXCEPT ![k] = "closed"]
    /\ closedErr' = [closedErr EXCEPT ![k] = e]
    /\ UNCHANGED <<config, fs, rvars, stopSaw, client, startPc, stopPc, stopConn, startConn,
                   stream, delivered, loopPc, log>>

\* A mutant of Severity: the case 'ldm' is missing and falls to the default.
SeverityWithoutLdm(tag) ==
    CASE tag = "error" -> "error"
      [] tag = "disconnect" -> "warn"
      [] tag = "reconnect" -> "success"
      [] tag = "reconnecting" -> "info"
      [] OTHER -> "debug"

\* The switch of handleStatusUpdates: the severity an event is logged with.
Severity(tag) ==
    CASE tag = "error" -> "error"
      [] tag = "disconnect" -> "warn"
      [] tag = "reconnect" -> "success"
      [] tag = "reconnecting" -> "info"
      [] tag = "staleConnection" -> "debug"
      [] tag = "ldm" -> "warn"
      [] tag = "update" -> "debug"
      [] OTHER -> "debug"

\* A mutant of LoopStatus: an event of tag error drops this.client and ends the loop.
LoopStatusErrorEnds(k) ==
    /\ loopPc[k] = "racing"
    /\ stream[k] # <<>>
    /\ log' = Logged(<<"loop", k>>, Entry(Severity(Head(stream[k])), "status", Head(stream[k])))
    /\ stream' = [stream EXCEPT ![k] = Tail(@)]
    /\ client' = IF Head(stream[k]) = "error" THEN 0 ELSE client
    /\ loopPc' = [loopPc EXCEPT ![k] = IF Head(stream[k]) = "error" THEN "ended" ELSE @]
    /\ UNCHANGED <<config, fs, rvars, stopSaw, startPc, stopPc, stopConn, startConn, conn,
                   closedErr, delivered>>

\* handleStatusUpdates: statusIterator.next() wins the race; the event is logged.
LoopStatus(k) ==
    /\ loopPc[k] = "racing"
    /\ stream[k] # <<>>
    /\ log' = Logged(<<"loop", k>>, Entry(Severity(Head(stream[k])), "status", Head(stream[k])))
    /\ stream' = [stream EXCEPT ![k] = Tail(@)]
    /\ UNCHANGED <<config, fs, rvars, stopSaw, client, startPc, stopPc, stopConn, startConn, conn,
                   closedErr, delivered, loopPc>>

\* The tags of the events a status source yields that has an event ready at every next().
ReadyTags == {"reconnecting", "reconnect"}

\* A history that keeps its last n entries: e is appended, the oldest entry is dropped.
Recent(seq, e, n) == IF Len(seq) < n THEN Append(seq, e) ELSE Append(Tail(seq), e)

\* handleStatusUpdates on a status source that has an event ready at every next(): the
\* promise of statusIterator.next() is fulfilled when the race starts and is the first of
\* the two, so the iteration takes the event and logs it, whether or not closed() has
\* resolved.  Of the two histories the last MaxEvents entries are kept.
LoopStatusReady(k, tag) ==
    /\ loopPc[k] = "racing"
    /\ log' = [log EXCEPT ![<<"loop", k>>] =
                  Recent(@, Entry(Severity(tag), "status", tag), MaxEvents)]
    /\ delivered' = [delivered EXCEPT ![k] = Recent(@, tag, MaxEvents)]
    /\ UNCHANGED <<config, fs, rvars, stopSaw, client, startPc, stopPc, stopConn, startConn, conn,
                   closedErr, stream, loopPc>>

\* A mutant of TerminalEntry: the error the closed promise carries is not looked at.
TerminalEntryIgnoringError(err) == Entry("info", "closed", Void)

\* handleStatusUpdates, if (result.done): error with err.message, or info.
TerminalEntry(err) ==
    IF err # Void THEN Entry("error", "closed", err) ELSE Entry("info", "closed", Void)

\* handleStatusUpdates: the closed promise wins the race.
LoopClosed(k) ==
    /\ loopPc[k] = "racing"
    /\ conn[k] = "closed"
    /\ log' = Logged(<<"loop", k>>, TerminalEntry(closedErr[k]))
    /\ client' = 0
    /\ loopPc' = [loopPc EXCEPT ![k] = "ended"]
    /\ UNCHANGED <<config, fs, rvars, stopSaw, startPc, stopPc, stopConn, startConn, conn,
                   closedErr, stream, delivered>>

\* A mutant of LoopFault: the catch also clears this.client, so that a later start()
\* connects again.
LoopFaultClearsClient(k) ==
    /\ loopPc[k] = "racing"
    /\ log' = Logged(<<"loop", k>>, Entry("error", "listener exited", Void))
    /\ loopPc' = [loopPc EXCEPT ![k] = "faulted"]
    /\ client' = 0
    /\ UNCHANGED <<config, fs, rvars, stopSaw, startPc, stopPc, stopConn, startConn, conn,
                   closedErr, stream, delivered>>

\* handleStatusUpdates: the status source throws; the catch logs it and the task ends.
LoopFault(k) ==
    /\ loopPc[k] = "racing"
    /\ log' = Logged(<<"loop", k>>, Entry("error", "listener exited", Void))
    /\ loopPc' = [loopPc EXCEPT ![k] = "faulted"]
    /\ UNCHANGED <<config, fs, rvars, stopSaw, client, startPc, stopPc, stopConn, startConn, conn,
                   closedErr, stream, delivered>>

\* The calls of start() and stop() in every interleaving, on connections whose status
\* stream stays silent.
SNext ==
    \/ \E c \in Starts : Start(c)
    \/ \E c \in Starts : StartResolved(c)
    \/ \E c \in Starts : StartConnected(c)
    \/ \E c \in Starts, e \in ConnectErrors : StartConnectFailed(c, e)
    \/ \E s \in Stops : Stop(s)
    \/ \E s \in Stops : StopReturned(s)
    \/ \E k \in Conns, e \in ClosedErrors \cup {Void} : TransportClosed(k, e)
    \/ \E k \in Conns : LoopClosed(k)
    \/ \E k \in Conns : LoopFault(k)

\* One start() and the connection it opens, with its status stream, its closing and the
\* calls of stop().
LNext ==
    \/ Start(1)
    \/ StartResolved(1)
    \/ StartConnected(1)
    \/ \E e \in ConnectErrors : StartConnectFailed(1, e)
    \/ \E s \in Stops : Stop(s)
    \/ \E s \in Stops : StopReturned(s)
    \/ \E tag \in StatusTags : TransportStatus(1, tag)
    \/ \E e \in ClosedErrors \cup {Void} : TransportClosed(1, e)
    \/ LoopStatus(1)
    \/ LoopClosed(1)
    \/ LoopFault(1)

\* One start() and the connection it opens, on a status source that has an event ready
\* at every next(), with the connection's closing and the calls of stop().
LReadyNext ==
    \/ Start(1)
    \/ StartResolved(1)
    \/ StartConnected(1)
    \/ \E e \in ConnectErrors : StartConnectFailed(1, e)
    \/ \E s \in Stops : Stop(s)
    \/ \E s \in Stops : StopReturned(s)
    \/ \E e \in ClosedErrors \cup {Void} : TransportClosed(1, e)
    \/ \E tag \in ReadyTags : LoopStatusReady(1, tag)
    \/ LoopClosed(1)
    \/ LoopFault(1)

(***************************************************************************)
(* The specifications.                                                     *)
(***************************************************************************)
RInit ==
    /\ rPc = "idle"
    /\ rAuth = <<>>
    /\ rRejected = {}
    /\ rOrder = <<>>
    /\ rOptions = BaseOptions(config)
    /\ rTls = EmptyTls
    /\ rReads = {}

SInit ==
    /\ client = 0
    /\ startPc = [c \in Starts |-> "idle"]
    /\ stopPc = [s \in Stops |-> "idle"]
    /\ stopConn = [s \in Stops |-> 0]
    /\ stopSaw = {}
    /\ startConn = [c \in Starts |-> 0]
    /\ conn = [k \in Conns |-> "unopened"]
    /\ closedErr = [k \in Conns |-> Void]
    /\ stream = [k \in Conns |-> <<>>]
    /\ delivered = [k \in Conns |-> <<>>]
    /\ loopPc = [k \in Conns |-> "none"]
    /\ log = [a \in Actors |-> <<>>]

\* The service: start(), stop(), the transport's connections and the reconciliation tasks.
Init == config \in ServiceConfigs /\ fs \in ServiceFileSystems /\ RInit /\ SInit
Next == SNext
Spec == Init /\ [][Next]_vars

\* The service on one connection and its status stream.
NextLoop == LNext
SpecLoop == Init /\ [][NextLoop]_vars

\* The service on one connection whose status source has an event ready at every
\* next(), with the event loop's scheduling: an await resumes once its promise has
\* settled.  The promise awaited is that of Promise.race, which settles as soon as one of
\* its two promises has, so the fairness is that of the iteration, whichever branch it
\* takes; nothing in the race prefers the closed promise.
NextLoopReady == LReadyNext
SpecLoopReady ==
    /\ Init
    /\ [][NextLoopReady]_vars
    /\ WF_vars((\E tag \in ReadyTags : LoopStatusReady(1, tag)) \/ LoopClosed(1))

\* One invocation of schemaToConnectionOptions on every configuration and file system.
InitResolver == config \in ResolverConfigs /\ fs \in FileSystems /\ RInit /\ SInit
NextResolver == RNext
SpecResolver == InitResolver /\ [][NextResolver]_vars


(***************************************************************************)
(* The resolver's two descriptions agree: the invocation run step by step  *)
(* ends as the invocation taken as a whole.                                *)
(***************************************************************************)
ResolverAgrees ==
    /\ rPc = "failed" => ResolveRejects(config, fs)
    /\ rPc = "done" => /\ ~ResolveRejects(config, fs)
                       /\ rOptions = schemaToConnectionOptions(config, fs)

(***************************************************************************)
(* C1: at most one connection opened by the supervisor is live at a time,  *)
(* under every interleaving of start(), stop() and transport events.       *)
(***************************************************************************)
C1_AtMostOneLive == Cardinality(Live) <= 1

(***************************************************************************)
(* C2: a start() called after a start() that succeeded, with no stop() and *)
(* no close in between, resolves nothing and connects nothing, logs one    *)
(* warning, returns normally, leaves the stored reference as it is, and    *)
(* one connection is live afterwards.                                      *)
(***************************************************************************)
\* The call c is made in succession to a successful start(): that call's connection is
\* stored, open, not draining, and the only live one.
C2_InSuccession(c) ==
    /\ startPc[c] = "idle"
    /\ \E b \in Starts : startPc[b] = "returned" /\ startConn[b] = client
    /\ client # 0
    /\ conn[client] = "open"
    /\ Live = {client}

C2_SecondStartWarnsOnly ==
    [][\A c \in Starts :
         (C2_InSuccession(c) /\ startPc'[c] # "idle") =>
            /\ startPc' = [startPc EXCEPT ![c] = "returned_warn"]
            /\ log' = [log EXCEPT ![<<"start", c>>] = <<Entry("warn", "already connected", Void)>>]
            /\ client' = client
            /\ conn' = conn
            /\ loopPc' = loopPc
            /\ Cardinality(Live') = 1]_vars

C2_Witness ==
    \E b, c \in Starts :
        /\ startPc[b] = "returned" /\ startConn[b] = client
        /\ startPc[c] = "returned_warn"
        /\ log[<<"start", c>>] = <<Entry("warn", "already connected", Void)>>
        /\ client # 0 /\ Live = {client}

(***************************************************************************)
(* C3: when connect() fails inside start(), the error is logged at error   *)
(* severity, the stored reference is absent when start() finishes, no      *)
(* reconciliation task is launched, and start() throws.                    *)
(***************************************************************************)
C3_ConnectFailurePropagates ==
    [][\A c \in Starts :
         (startPc[c] = "connecting" /\ startPc'[c] # "connecting" /\ startConn'[c] = 0) =>
            /\ startPc'[c] = "threw_connect"
            /\ Len(log'[<<"start", c>>]) = Len(log[<<"start", c>>]) + 1
            /\ log'[<<"start", c>>][Len(log'[<<"start", c>>])].sev = "error"
            /\ log'[<<"start", c>>][Len(log'[<<"start", c>>])].arg \in ConnectErrors
            /\ client' = 0
            /\ loopPc' = loopPc
            /\ conn' = conn]_vars

C3_Witness ==
    \E c \in Starts :
        /\ startPc[c] = "threw_connect"
        /\ startConn[c] = 0
        /\ client = 0
        /\ log[<<"start", c>>] = <<Entry("info", "connecting", Void),
                                   Entry("error", "connect failed", "CONNECTION_REFUSED")>>

(***************************************************************************)
(* C4: when a credentials, certificate or key file cannot be read during   *)
(* start(), connect() is not called, the stored reference is absent when   *)
(* start() finishes, and start() throws.                                   *)
(***************************************************************************)
\* A file the configuration makes schemaToConnectionOptions read is missing.
C4_UnreadableFile ==
    \/ /\ config.authenticator # Undefined
       /\ \E i \in DOMAIN Val(config.authenticator) :
             /\ Val(config.authenticator)[i].authType = "creds_file"
             /\ fs[Val(Val(config.authenticator)[i].creds_file)] = Undefined
    \/ /\ config.tlsEnabled = Some(TRUE)
       /\ config.tlsConfig # Undefined
       /\ \E p \in {Val(config.tlsConfig).certFile, Val(config.tlsConfig).keyFile,
                    Val(config.tlsConfig).caFile} :
             p \notin {Undefined, Some(EmptyStr)} /\ fs[Val(p)] = Undefined

C4_ResolutionFailurePropagates ==
    [][\A c \in Starts :
         (startPc[c] = "resolving" /\ startPc'[c] # "resolving" /\ C4_UnreadableFile) =>
            /\ startPc'[c] = "threw_resolve"
            /\ client' = 0
            /\ \A b \in Starts : startPc'[b] \notin {"connecting", "returned", "threw_connect"}
            /\ conn' = conn
            /\ loopPc' = loopPc
            /\ log' = log]_vars

C4_Witness ==
    \E c \in Starts :
        /\ startPc[c] = "threw_resolve"
        /\ C4_UnreadableFile
        /\ client = 0
        /\ log[<<"start", c>>] = <<>>
        /\ \A k \in Conns : conn[k] = "unopened"

(***************************************************************************)
(* C5: when stop() is called while a client is stored, the stored          *)
(* reference is absent at the moment stop() returns.                       *)
(***************************************************************************)
C5_StopClearsClient ==
    [][\A s \in Stops :
         (stopPc[s] = "draining" /\ stopPc'[s] = "returned_drained") => client' = 0]_vars

(***************************************************************************)
(* C6: stop() called while the stored reference is absent invokes no       *)
(* drain, writes no log entry and changes nothing of the supervisor.       *)
(***************************************************************************)
C6_StopWithoutClientIsNoOp ==
    [][\A s \in Stops :
         (stopPc[s] = "idle" /\ stopPc'[s] # "idle" /\ client = 0) =>
            /\ stopPc'[s] = "returned"
            /\ stopConn'[s] = 0
            /\ log' = log
            /\ UNCHANGED <<client, conn, loopPc, startPc, startConn, closedErr, stream>>]_vars

C6_Witness ==
    \E s \in Stops :
        /\ stopPc[s] = "returned"
        /\ stopConn[s] = 0
        /\ log[<<"stop", s>>] = <<>>
        /\ \E k \in Conns : conn[k] = "closed" /\ loopPc[k] = "ended"


(***************************************************************************)
(* C7: when the closed signal resolves, the reconciliation loop writes one *)
(* terminal entry (info without an error, error with the error's message   *)
(* otherwise), sets the stored reference to absent and ends; no connection *)
(* ever gets two terminal entries.                                         *)
(***************************************************************************)
\* The entries the reconciliation task of connection k has written.
C7_LoopLog(k) == log[<<"loop", k>>]
C7_Terminals(k) == {i \in DOMAIN C7_LoopLog(k) : C7_LoopLog(k)[i].msg = "closed"}

C7_OneTerminalEntry ==
    /\ [](\A k \in Conns :
            Cardinality(C7_Terminals(k)) = IF loopPc[k] = "ended" THEN 1 ELSE 0)
    /\ [][\A k \in Conns :
            (\/ loopPc[k] # "ended" /\ loopPc'[k] = "ended"
             \/ Cardinality(C7_Terminals(k)') > Cardinality(C7_Terminals(k))) =>
               /\ conn[k] = "closed"
               /\ loopPc'[k] = "ended"
               /\ client' = 0
               /\ log' = [log EXCEPT ![<<"loop", k>>] =
                            Append(@, IF closedErr[k] = Void
                                      THEN [sev |-> "info", msg |-> "closed", arg |-> Void]
                                      ELSE [sev |-> "error", msg |-> "closed",
                                            arg |-> closedErr[k]])]]_vars

C7_Witness ==
    \E k \in Conns :
        /\ loopPc[k] = "ended" /\ closedErr[k] = "TIMEOUT"
        /\ C7_LoopLog(k) = <<[sev |-> "warn", msg |-> "status", arg |-> "disconnect"],
                             [sev |-> "error", msg |-> "closed", arg |-> "TIMEOUT"]>>
        /\ client = 0

(***************************************************************************)
(* C8: N status events delivered before the closed signal give N           *)
(* non-terminal entries in stream order, then one terminal entry, then     *)
(* nothing; no delivered event is dropped.                                 *)
(***************************************************************************)
C8_EveryEventThenTerminal ==
    \A k \in Conns :
        loopPc[k] = "ended" =>
            log[<<"loop", k>>] =
                [i \in 1..Len(delivered[k]) |->
                    Entry(Severity(delivered[k][i]), "status", delivered[k][i])]
                \o <<TerminalEntry(closedErr[k])>>

(***************************************************************************)
(* C9: when the authenticator list is not empty and every file is read,    *)
(* the resolved list has one authenticator per AuthSpec, the i-th built    *)
(* from the i-th AuthSpec, in whatever order the resolutions completed.    *)
(***************************************************************************)
\* The authenticator an AuthSpec stands for.
C9_Built(auth) ==
    CASE auth.authType = "Token" -> <<"token", auth.auth_token>>
      [] auth.authType = "UserPass" -> <<"userpass", auth.user, auth.pass>>
      [] auth.authType = "NKey" -> <<"nkey", Utf8Encode(Val(auth.nkey_seed))>>
      [] auth.authType = "creds_file" -> <<"creds", Val(fs[Val(auth.creds_file)])>>

C9_AuthenticatorsInInputOrder ==
    (rPc = "done" /\ config.authenticator # Undefined /\ Val(config.authenticator) # <<>>) =>
        /\ rOptions.authenticator # Undefined
        /\ Len(Val(rOptions.authenticator)) = Len(Val(config.authenticator))
        /\ \A i \in 1..Len(Val(config.authenticator)) :
              Val(rOptions.authenticator)[i] = C9_Built(Val(config.authenticator)[i])

C9_Witness ==
    /\ rPc = "done"
    /\ config.authenticator = Some(<<CredsASpec, NKeySpec>>)
    /\ rOrder = <<2, 1>>
    /\ Val(rOptions.authenticator) = <<<<"creds", <<97, 195, 169>>>>, <<"nkey", <<83, 195, 169>>>>>>

(***************************************************************************)
(* C10: with TLS enabled, a slot of cert, key, ca whose path field and     *)
(* inline field are both set resolves to the content of the file at the    *)
(* path, not to the inline string.                                         *)
(***************************************************************************)
\* A field is set when it holds a non-empty string.
C10_IsSet(o) == o # Undefined /\ Val(o) # <<>>
C10_FileText(p) == Utf8Decode(Val(fs[Val(p)]))

C10_PathWins ==
    (rPc = "done" /\ config.tlsEnabled = Some(TRUE) /\ config.tlsConfig # Undefined) =>
        LET t == Val(config.tlsConfig)
        IN /\ rOptions.tls # Undefined
           /\ (C10_IsSet(t.certFile) /\ C10_IsSet(t.cert)) =>
                 Val(rOptions.tls).cert = Some(C10_FileText(t.certFile))
           /\ (C10_IsSet(t.keyFile) /\ C10_IsSet(t.key)) =>
                 Val(rOptions.tls).key = Some(C10_FileText(t.keyFile))
           /\ (C10_IsSet(t.caFile) /\ C10_IsSet(t.ca)) =>
                 Val(rOptions.tls).ca = Some(C10_FileText(t.caFile))

C10_Witness ==
    /\ rPc = "done"
    /\ config.tlsEnabled = Some(TRUE)
    /\ config.tlsConfig # Undefined
    /\ Val(config.tlsConfig).certFile = Some(PathA)
    /\ Val(config.tlsConfig).cert = Some(PemInline)
    /\ Val(config.tlsConfig).caFile = Some(PathB)
    /\ Val(config.tlsConfig).ca = Some(PemInline)
    /\ Val(rOptions.tls).cert = Some(<<97, 233>>)
    /\ Val(rOptions.tls).ca = Some(<<65533, 98>>)
    /\ Val(rOptions.tls).cert # Val(config.tlsConfig).cert


(***************************************************************************)
(* C11: with TLS enabled, a slot of cert, key, ca with neither its path    *)
(* field nor its inline field set is absent from the resolved TLSOptions   *)
(* and no file is read for it; a slot with only its inline field set gets  *)
(* the inline value verbatim.                                              *)
(***************************************************************************)
\* No readFile call was made for the slot.
C11_NoRead(slot) == \A r \in rReads : r[1] # slot

\* What the claim says of one slot, given its two fields and its resolved value.
C11_SlotOk(slot, pathOpt, inlineOpt, resolved) ==
    /\ (~C10_IsSet(pathOpt) /\ ~C10_IsSet(inlineOpt)) =>
          (resolved = Undefined /\ C11_NoRead(slot))
    /\ (~C10_IsSet(pathOpt) /\ C10_IsSet(inlineOpt)) =>
          (resolved = inlineOpt /\ C11_NoRead(slot))

C11_AbsentOrInline ==
    (rPc = "done" /\ config.tlsEnabled = Some(TRUE) /\ config.tlsConfig # Undefined) =>
        LET t == Val(config.tlsConfig)
            o == Val(rOptions.tls)
        IN /\ rOptions.tls # Undefined
           /\ C11_SlotOk("cert", t.certFile, t.cert, o.cert)
           /\ C11_SlotOk("key", t.keyFile, t.key, o.key)
           /\ C11_SlotOk("ca", t.caFile, t.ca, o.ca)

C11_Witness ==
    /\ rPc = "done"
    /\ config.tlsEnabled = Some(TRUE)
    /\ config.tlsConfig # Undefined
    /\ Val(config.tlsConfig).certFile = Undefined
    /\ Val(config.tlsConfig).cert = Some(PemInline)
    /\ Val(config.tlsConfig).keyFile = Undefined
    /\ Val(config.tlsConfig).key = Undefined
    /\ Val(config.tlsConfig).caFile = Some(PathB)
    /\ Val(rOptions.tls).cert = Some(<<105, 233>>)
    /\ Val(rOptions.tls).key = Undefined
    /\ rReads = {<<"ca", 0, Some(PathB)>>}


(***************************************************************************)
(* C12: schemaToConnectionOptions never changes the Config it is given,    *)
(* whether it resolves or rejects: no step of it alters config, its        *)
(* AuthSpec list or its TLSSpec.                                           *)
(***************************************************************************)
C12_ConfigNeverMutated == [][config' = config]_vars

C12_Witness ==
    /\ rPc = "done"
    /\ config.authenticator = Some(<<CredsASpec>>)
    /\ config.tlsEnabled = Some(TRUE)
    /\ config.tlsConfig # Undefined
    /\ Val(config.tlsConfig).certFile = Some(PathA)
    /\ Val(config.tlsConfig).cert = Some(PemInline)
    /\ rOptions.authenticator # Undefined
    /\ rOptions.tls # Undefined
    /\ Val(rOptions.tls).cert = Some(<<97, 233>>)


(***************************************************************************)
(* C13: every status event the loop takes off the stream adds exactly one  *)
(* entry to the loop's log and nothing else to any log, with the severity  *)
(* of its tag: error -> error, disconnect -> warn, reconnect -> success,   *)
(* reconnecting -> info, staleConnection -> debug, ldm -> warn,            *)
(* update -> debug, any other tag -> debug.                                *)
(***************************************************************************)
C13_SeverityOf ==
    [tag \in StatusTags |->
        IF tag \in {"error"} THEN "error"
        ELSE IF tag \in {"disconnect", "ldm"} THEN "warn"
        ELSE IF tag \in {"reconnect"} THEN "success"
        ELSE IF tag \in {"reconnecting"} THEN "info"
        ELSE "debug"]

C13_OneEntryPerEvent ==
    [][\A k \in Conns :
        Len(stream'[k]) < Len(stream[k]) =>
            \E e \in [sev : {C13_SeverityOf[Head(stream[k])]}, msg : {"status"},
                      arg : {Head(stream[k])}] :
                log' = [log EXCEPT ![<<"loop", k>>] = Append(@, e)]]_vars

C13_Witness ==
    /\ loopPc[1] = "racing"
    /\ stream[1] = <<>>
    /\ delivered[1] = <<"ldm", "pingTimer">>
    /\ log[<<"loop", 1>>] = <<[sev |-> "warn", msg |-> "status", arg |-> "ldm"],
                              [sev |-> "debug", msg |-> "status", arg |-> "pingTimer"]>>


(***************************************************************************)
(* C14: the loop ends exactly when the connection is closed.  Under fair   *)
(* scheduling, once the closed promise has resolved while the loop is      *)
(* racing, the loop eventually ends with the terminal entry as its last    *)
(* entry (or has ended on a fault), also when the status source has an     *)
(* event ready at every read; and a loop that has not faulted never ends   *)
(* before the closed promise has resolved.                                 *)
(***************************************************************************)
C14_EndedWithTerminal(k) ==
    /\ loopPc[k] = "ended"
    /\ log[<<"loop", k>>] # <<>>
    /\ log[<<"loop", k>>][Len(log[<<"loop", k>>])].msg = "closed"

C14_EndsExactlyWhenClosed ==
    /\ \A k \in Conns :
         (conn[k] = "closed" /\ loopPc[k] = "racing")
            ~> (loopPc[k] = "faulted" \/ C14_EndedWithTerminal(k))
    /\ [](\A k \in Conns : loopPc[k] = "ended" => conn[k] = "closed")
    /\ [][\A k \in Conns : loopPc[k] = "racing" /\ conn[k] # "closed" =>
                             loopPc'[k] \in {"racing", "faulted"}]_vars


(***************************************************************************)
(* C15: a fault of the loop is caught in the loop's task.  The step that   *)
(* faults loop k appends one entry of severity error to the loop's log and *)
(* ends the loop; it changes nothing else: not this.client, no connection, *)
(* no call of start() or stop().  A faulted loop stays faulted and logs    *)
(* nothing more, and its log holds exactly one fault entry, the last one.  *)
(***************************************************************************)
C15_FaultEntries(k) ==
    {i \in DOMAIN log[<<"loop", k>>] : log[<<"loop", k>>][i].msg = "listener exited"}

C15_FaultIsolated ==
    /\ [][\A k \in Conns :
            /\ (loopPc[k] # "faulted" /\ loopPc'[k] = "faulted") =>
                  /\ loopPc[k] = "racing"
                  /\ \E e \in [sev : {"error"}, msg : {"listener exited"}, arg : {Void}] :
                        log' = [log EXCEPT ![<<"loop", k>>] = Append(@, e)]
                  /\ loopPc' = [loopPc EXCEPT ![k] = "faulted"]
                  /\ UNCHANGED <<client, conn, closedErr, startPc, startConn, stopPc, stopConn>>
            /\ loopPc[k] = "faulted" =>
                  /\ loopPc'[k] = "faulted"
                  /\ log'[<<"loop", k>>] = log[<<"loop", k>>]]_vars
    /\ [](\A k \in Conns :
            /\ loopPc[k] = "faulted" =>
                  C15_FaultEntries(k) = {Len(log[<<"loop", k>>])}
            /\ loopPc[k] # "faulted" => C15_FaultEntries(k) = {})

C15_Witness ==
    /\ loopPc[1] = "faulted"
    /\ log[<<"loop", 1>>] = <<[sev |-> "error", msg |-> "listener exited", arg |-> Void]>>
    /\ client = 1
    /\ startPc[1] = "returned"
    /\ startPc[2] = "returned_warn"
    /\ conn[2] = "unopened"
    /\ stopPc[1] = "returned_drained"


(***************************************************************************)
(* C16: taking a status event of any tag off the stream leaves this.client *)
(* and the connection as they are and leaves the loop racing, so that the  *)
(* events behind it and the closed promise are still taken.                *)
(***************************************************************************)
C16_EventKeepsLoop ==
    /\ [][\A k \in Conns :
            Len(stream'[k]) < Len(stream[k]) =>
                /\ client' = client
                /\ conn' = conn
                /\ loopPc[k] = "racing" /\ loopPc' = loopPc
                /\ stream'[k] = Tail(stream[k])]_vars
    /\ [](\A k \in Conns :
            loopPc[k] = "racing" =>
                /\ stream[k] # <<>> => ENABLED LoopStatus(k)
                /\ conn[k] = "closed" => ENABLED LoopClosed(k))

C16_Witness ==
    /\ client = 1
    /\ conn[1] = "open"
    /\ loopPc[1] = "racing"
    /\ log[<<"loop", 1>>] = <<[sev |-> "error", msg |-> "status", arg |-> "error"],
                              [sev |-> "warn", msg |-> "status", arg |-> "disconnect"]>>


(***************************************************************************)
(* C17: the step of start() that follows a resolved connect() stores the   *)
(* new connection in this.client and launches the task of that connection, *)
(* which finds the connection stored; start() has returned while the task  *)
(* is racing and the connection is open.  A connection has one task: a     *)
(* task is launched only on that step and only for a connection without    *)
(* task, and every opened connection has got one.                          *)
(***************************************************************************)
C17_StoredThenLaunched ==
    /\ [][\A c \in Starts :
            (startPc[c] = "connecting" /\ startPc'[c] = "returned") =>
                LET k == startConn'[c]
                IN /\ k \in Conns /\ conn[k] = "unopened" /\ conn'[k] = "open"
                   /\ client' = k
                   /\ loopPc[k] = "none"
                   /\ loopPc' = [loopPc EXCEPT ![k] = "racing"]]_vars
    /\ [][\A k \in Conns :
            loopPc'[k] # loopPc[k] /\ loopPc'[k] = "racing" =>
                /\ loopPc[k] = "none"
                /\ client' = k
                /\ \E c \in Starts : startPc[c] = "connecting" /\ startPc'[c] = "returned"
                                     /\ startConn'[c] = k]_vars
    /\ [](\A k \in Conns : conn[k] # "unopened" <=> loopPc[k] # "none")

C17_Witness ==
    /\ startPc[1] = "returned"
    /\ startConn[1] = 1
    /\ client = 1
    /\ conn[1] = "open"
    /\ loopPc[1] = "racing"
    /\ log[<<"start", 1>>] = <<[sev |-> "info", msg |-> "connecting", arg |-> Void],
                               [sev |-> "success", msg |-> "connected", arg |-> Void]>>
    /\ log[<<"loop", 1>>] = <<>>


(***************************************************************************)
(* C18: a stop() that finds a connection in this.client calls drain() on   *)
(* that connection and on no other, and returns only when that drain has   *)
(* completed, the connection being closed; no step of stop() closes a      *)
(* connection itself.                                                      *)
(***************************************************************************)
C18_DrainsAndWaits ==
    /\ [][\A s \in Stops :
            /\ (stopPc[s] = "idle" /\ stopPc'[s] # "idle" /\ client # 0) =>
                  /\ stopPc'[s] = "draining"
                  /\ stopConn'[s] = client
                  /\ conn[client] = "open" => conn'[client] = "draining"
                  /\ \A k \in Conns \ {client} : conn'[k] = conn[k]
            /\ (stopPc[s] = "draining" /\ stopPc'[s] # "draining") =>
                  /\ stopPc'[s] = "returned_drained"
                  /\ conn[stopConn[s]] = "closed"
            /\ stopPc'[s] # stopPc[s] =>
                  \A k \in Conns : conn'[k] = "closed" => conn[k] = "closed"]_vars
    /\ [](\A s \in Stops :
            /\ stopPc[s] = "returned_drained" => conn[stopConn[s]] = "closed"
            /\ stopPc[s] = "draining" => stopConn[s] \in Conns /\ conn[stopConn[s]] # "open")

C18_Witness ==
    /\ stopPc[1] = "returned_drained"
    /\ stopConn[1] = 1
    /\ conn[1] = "closed"
    /\ closedErr[1] = Void
    /\ log[<<"stop", 1>>] = <<[sev |-> "info", msg |-> "closing", arg |-> Void]>>
    /\ loopPc[1] = "racing"


(***************************************************************************)
(* C19: when the file of some creds_file AuthSpec of a non-empty list      *)
(* cannot be read, schemaToConnectionOptions never returns options and     *)
(* never puts an authenticator list into them, whatever the other          *)
(* AuthSpecs are and in whatever order the callbacks settle.               *)
(***************************************************************************)
C19_CredsUnreadable ==
    /\ config.authenticator # Undefined
    /\ \E i \in DOMAIN Val(config.authenticator) :
          LET a == Val(config.authenticator)[i]
          IN a.authType = "creds_file" /\ \E p \in a.creds_file : fs[p] = Undefined

C19_CredsFailureFailsAll ==
    C19_CredsUnreadable =>
        /\ rPc \in {"idle", "auth", "failed"}
        /\ rOptions.authenticator = Undefined
        /\ rOptions.tls = Undefined

C19_Witness ==
    /\ config.authenticator = Some(<<CredsBSpec, TokenSpec>>)
    /\ fs[PathB] = Undefined
    /\ rPc = "failed"
    /\ rOrder = <<2>>
    /\ rAuth[1] = Undefined /\ rAuth[2] # Undefined
    /\ rOptions.authenticator = Undefined


(***************************************************************************)
(* C20: the options schemaToConnectionOptions returns hold TLS options     *)
(* exactly when config.tlsEnabled is true, with the handshakeFirst of      *)
(* config.tlsConfig; and when tlsEnabled is not true no certificate, key   *)
(* or CA file is read at any point of the invocation.                      *)
(***************************************************************************)
C20_TlsReads == {r \in rReads : r[1] \in {"cert", "key", "ca"}}

C21_ClearsOwnConnection ==
    [][\A k \in Conns :
        (loopPc[k] = "racing" /\ loopPc'[k] = "ended") =>
            (client # 0 => client = k)]_vars


(***************************************************************************)
(* C22: stop() is effective against a start() in flight.  When stop() was  *)
(* called while this.client was null and a start() was awaiting (that      *)
(* stop() returns on the step it is called), and the start() has completed *)
(* too, the connection that start() opened, if any, is not both live and   *)
(* stored in this.client.                                                  *)
(***************************************************************************)
C22_Completed(c) == startPc[c] \notin {"idle", "resolving", "connecting"}

C22_StopCoversStartInFlight ==
    \A c \in stopSaw :
        C22_Completed(c) =>
            ~(/\ startConn[c] # 0
              /\ client = startConn[c]
              /\ conn[startConn[c]] \in {"open", "draining"})


(***************************************************************************)
(* C23: this.client never outlives its supervision.  In every state, the   *)
(* connection this.client refers to has a task that has not ended, neither *)
(* by the closed branch nor in the catch block.                            *)
(***************************************************************************)
C23_ClientIsSupervised ==
    client # 0 => loopPc[client] \notin {"ended", "faulted"}


====
